---- MODULE Spec2Model ----
(***************************************************************************)
(* Model of the auto-scheduling path of the task service:                  *)
(*   TaskService.schedule_tasks   (src/app/services/task_service.py)       *)
(*   AutoScheduler.auto_schedule  (src/app/utils/scheduler.py)             *)
(* Each request runs in its own database session; the committed rows are   *)
(* shared.  A datetime is an integer count of clock ticks since 00:00 of   *)
(* day 0; an Optional column is <<>> (None) or <<v>>.  The name Optional   *)
(* in the annotation of _has_conflict is taken as imported from typing.    *)
(***************************************************************************)
EXTENDS Integers, Sequences, FiniteSets, TLC

\* ---------------------------------------------------------------- bounds
\* clock resolution: ticks per second (datetime carries a sub-second field)
TicksPerSecond == 2
\* schedule requests served in one behaviour
MaxRequests == 2

\* ------------------------------------------------------- datetime model
Second == TicksPerSecond
Minute == 60 * Second
Hour == 60 * Minute
Day == 24 * Hour

None == <<>>
Some(v) == <<v>>
IsSet(o) == o # <<>>

\* datetime.hour
HourOf(dt) == (dt % Day) \div Hour

\* slip: the minutes added as seconds
PlusMinutesAsSeconds(dt, n) == dt + n * Second

\* dt + timedelta(minutes=n)
PlusMinutes(dt, n) == dt + n * Minute

\* dt.replace(hour=h, minute=0, second=0): the microsecond field is kept
ReplaceHour(dt, h) == (dt - (dt % Day)) + h * Hour + (dt % Second)

\* a wall-clock instant of day d
At(d, h, m) == d * Day + h * Hour + m * Minute

\* ------------------------------------------ AutoScheduler configuration
working_hours_start == 9
working_hours_end == 18
buffer_minutes == 15

\* datetime.max, the sort key of a task without a due date
DatetimeMax == 1000 * Day - 1

\* slip: a priority outside the table is weighted after "low"
PriorityWeightUnknownLast(priority) ==
    CASE priority = "urgent" -> 0
      [] priority = "high" -> 1
      [] priority = "medium" -> 2
      [] priority = "low" -> 3
      [] OTHER -> 4

\* AutoScheduler._priority_weight
PriorityWeight(priority) ==
    CASE priority = "urgent" -> 0
      [] priority = "high" -> 1
      [] priority = "medium" -> 2
      [] priority = "low" -> 3
      [] OTHER -> 2

\* AutoScheduler._is_working_hours: only the hour fields are compared
IsWorkingHours(start, duration_minutes) ==
    LET end == PlusMinutes(start, duration_minutes)
    IN  /\ working_hours_start <= HourOf(start)
        /\ HourOf(start) < working_hours_end
        /\ working_hours_start <= HourOf(end)
        /\ HourOf(end) <= working_hours_end

\* AutoScheduler._next_working_hour
NextWorkingHour(dt) ==
    IF HourOf(dt) < working_hours_start
    THEN ReplaceHour(dt, working_hours_start)
    ELSE IF HourOf(dt) >= working_hours_end
         THEN ReplaceHour(dt + Day, working_hours_start)
         ELSE dt

\* slip: the second comparison made against the start of the other task
OverlapsAgainstStart(s1, e1, s2, e2) == ~(e1 <= s2 \/ s1 >= s2)

\* slip: the comparisons made strict, so that touching windows conflict
OverlapsClosed(s1, e1, s2, e2) == ~(e1 < s2 \/ s1 > e2)

\* the half-open overlap test of _has_conflict, on two (start, end) pairs
Overlaps(s1, e1, s2, e2) == ~(e1 <= s2 \/ s1 >= e2)

\* slip: the loop over the list stops one task short
HasConflictSkipsLast(start, end, tasks, objs) ==
    LET hits == {i \in 1..(Len(tasks) - 1) :
                    /\ IsSet(objs[tasks[i]].scheduled_start)
                    /\ IsSet(objs[tasks[i]].scheduled_end)
                    /\ Overlaps(start, end,
                                objs[tasks[i]].scheduled_start[1],
                                objs[tasks[i]].scheduled_end[1])}
    IN  IF hits = {} THEN None
        ELSE Some(tasks[CHOOSE i \in hits : \A j \in hits : i <= j])

\* slip: the test keeps buffer_minutes clear on both sides of every
\* interval of the list
HasConflictWithBuffer(start, end, tasks, objs) ==
    LET hits == {i \in 1..Len(tasks) :
                    /\ IsSet(objs[tasks[i]].scheduled_start)
                    /\ IsSet(objs[tasks[i]].scheduled_end)
                    /\ Overlaps(start, end,
                                PlusMinutes(objs[tasks[i]].scheduled_start[1],
                                            -buffer_minutes),
                                PlusMinutes(objs[tasks[i]].scheduled_end[1],
                                            buffer_minutes))}
    IN  IF hits = {} THEN None
        ELSE Some(tasks[CHOOSE i \in hits : \A j \in hits : i <= j])

\* AutoScheduler._has_conflict: the first task of the list, as the session
\* sees it, whose interval overlaps [start, end); None when there is none
HasConflict(start, end, tasks, objs) ==
    LET hits == {i \in 1..Len(tasks) :
                    /\ IsSet(objs[tasks[i]].scheduled_start)
                    /\ IsSet(objs[tasks[i]].scheduled_end)
                    /\ Overlaps(start, end,
                                objs[tasks[i]].scheduled_start[1],
                                objs[tasks[i]].scheduled_end[1])}
    IN  IF hits = {} THEN None
        ELSE Some(tasks[CHOOSE i \in hits : \A j \in hits : i <= j])

\* ------------------------------------------------------------- sorting
\* lexicographic order on the (first, second) key pairs
KeyLess(a, b) == a[1] < b[1] \/ (a[1] = b[1] /\ a[2] < b[2])

\* slip: the tasks are collected by key, so that a task whose key an
\* earlier one of the list carries is lost
RECURSIVE SortDroppingTies(_, _)
SortDroppingTies(seq, keys) ==
    IF seq = <<>> THEN <<>>
    ELSE LET n == Len(seq)
             x == seq[n]
             front == SortDroppingTies(SubSeq(seq, 1, n - 1), keys)
             pos == Cardinality({i \in DOMAIN front : ~KeyLess(keys[x], keys[front[i]])})
         IN  IF \E i \in DOMAIN front : keys[front[i]] = keys[x]
             THEN front
             ELSE SubSeq(front, 1, pos) \o <<x>> \o SubSeq(front, pos + 1, Len(front))

\* sorted / list.sort: a stable sort of seq by the key pairs keys[x],
\* by insertion from the left (equal keys keep their order)
RECURSIVE StableSort(_, _)
StableSort(seq, keys) ==
    IF seq = <<>> THEN <<>>
    ELSE LET n == Len(seq)
             x == seq[n]
             front == StableSort(SubSeq(seq, 1, n - 1), keys)
             pos == Cardinality({i \in DOMAIN front : ~KeyLess(keys[x], keys[front[i]])})
         IN  SubSeq(front, 1, pos) \o <<x>> \o SubSeq(front, pos + 1, n - 1)

\* the orders in which a query may return the rows S
Orderings(S) ==
    {s \in [1..Cardinality(S) -> S] : \A i, j \in DOMAIN s : i # j => s[i] # s[j]}

Range(seq) == {seq[i] : i \in DOMAIN seq}

\* ---------------------------------------------------------- the tables
Users == {1, 2}
TaskIds == 1..4
Workers == {1, 2}

NewTask(user, priority, due, duration) ==
    [user_id |-> user, priority |-> priority, due_date |-> due,
     duration_minutes |-> duration, scheduled_start |-> None,
     scheduled_end |-> None, status |-> "inbox"]

\* a task some earlier request or calendar import has put on the calendar
Booked(user, start, duration) ==
    [user_id |-> user, priority |-> "medium", due_date |-> None,
     duration_minutes |-> Some(duration), scheduled_start |-> Some(start),
     scheduled_end |-> Some(PlusMinutes(start, duration)), status |-> "scheduled"]

\* duration_minutes is a nullable Integer column; rows written by the
\* importers carry any integer
DurationChoices ==
    {Some(45), Some(120), Some(0), Some(-30), Some(600), Some(960), None}

BookedChoices ==
    {Booked(1, At(1, 9, 0), 60), Booked(1, At(1, 17, 0), 30)}

InitialDBs ==
    {[id \in TaskIds |->
        CASE id = 1 -> NewTask(1, "high", None, Some(30))
          [] id = 2 -> NewTask(1, "medium", None, d)
          [] id = 3 -> b
          [] OTHER -> NewTask(2, "medium", None, Some(30))]
     : d \in DurationChoices, b \in BookedChoices}

\* the readings of datetime.now()
NowChoices ==
    {At(1, 8, 20) + 30 * Second + 1, At(1, 9, 0), At(1, 17, 30)}

Request(user, ids, auto) == [user_id |-> user, task_ids |-> ids, auto_slot |-> auto]

Requests ==
    {Request(1, {1}, TRUE), Request(1, {2}, TRUE), Request(1, {1, 2}, TRUE),
     Request(1, {2, 3}, TRUE), Request(2, {1, 4}, TRUE), Request(1, {1}, FALSE)}

\* ------------------------------------------------------------ the state
VARIABLES
    db,             \* committed rows of the tasks table
    pc,             \* where each worker's request stands
    req,            \* the request a worker is serving
    objs,           \* the Task objects of the worker's session
    orig,           \* their column values as loaded
    tasks,          \* schedule_tasks: result of the batch query
    existing_tasks, \* auto_schedule: the occupied list
    sorted_tasks,   \* auto_schedule: the batch in placement order
    current_time,   \* auto_schedule: the cursor
    idx,            \* position of the for loop in sorted_tasks
    candidate,      \* _find_next_slot: the candidate start
    call,           \* auto_schedule: what the call read, the clock and
                    \* the occupied rows in the order the query gave
    requests        \* requests served so far

vars == <<db, pc, req, objs, orig, tasks, existing_tasks, sorted_tasks,
          current_time, idx, candidate, call, requests>>

frame == <<tasks, existing_tasks, sorted_tasks, current_time, idx, candidate,
           call>>

NoCall == [now |-> 0, existing_tasks |-> <<>>]

NoRequest == Request(0, {}, TRUE)
NoObjects == [id \in {} |-> 0]

Init ==
    /\ db \in InitialDBs
    /\ pc = [p \in Workers |-> "idle"]
    /\ req = [p \in Workers |-> NoRequest]
    /\ objs = [p \in Workers |-> NoObjects]
    /\ orig = [p \in Workers |-> NoObjects]
    /\ tasks = [p \in Workers |-> <<>>]
    /\ existing_tasks = [p \in Workers |-> <<>>]
    /\ sorted_tasks = [p \in Workers |-> <<>>]
    /\ current_time = [p \in Workers |-> 0]
    /\ idx = [p \in Workers |-> 0]
    /\ candidate = [p \in Workers |-> 0]
    /\ call = [p \in Workers |-> NoCall]
    /\ requests = 0

\* ---------------------------------------------------- session helpers
\* sort key of sorted(): (priority weight, due_date or datetime.max)
SortKey(t) ==
    <<PriorityWeight(t.priority),
      IF IsSet(t.due_date) THEN t.due_date[1] ELSE DatetimeMax>>

\* slip: the loop index is applied to the occupied list
CurrentTaskOfOccupied(p) ==
    IF idx[p] <= Len(existing_tasks[p])
    THEN existing_tasks[p][idx[p]]
    ELSE sorted_tasks[p][idx[p]]

\* the task the for loop of auto_schedule is placing
CurrentTask(p) == sorted_tasks[p][idx[p]]
CurrentDuration(p) == objs[p][CurrentTask(p)].duration_minutes

\* what schedule_tasks iterates over and returns
ScheduledTasks(p) == IF req[p].auto_slot THEN sorted_tasks[p] ELSE tasks[p]

\* slip: the pass looks for conflicts among the rows committed by now
\* instead of the list it was handed
FindNextSlotPassOnCommitted(c, duration_minutes, existing, session) ==
    IF ~IsWorkingHours(c, duration_minutes)
    THEN [found |-> FALSE, candidate |-> NextWorkingHour(c)]
    ELSE LET end_time == PlusMinutes(c, duration_minutes)
             committed == [id \in TaskIds |-> db[id]]
             conflict == HasConflict(c, end_time, [i \in TaskIds |-> i], committed)
         IN  IF ~IsSet(conflict)
             THEN [found |-> TRUE, candidate |-> c]
             ELSE [found |-> FALSE,
                   candidate |-> PlusMinutes(committed[conflict[1]].scheduled_end[1],
                                             buffer_minutes)]

\* slip: after a conflict the pass moves to the end of the conflicting
\* task without the buffer
FindNextSlotPassNoBuffer(c, duration_minutes, existing, session) ==
    IF ~IsWorkingHours(c, duration_minutes)
    THEN [found |-> FALSE, candidate |-> NextWorkingHour(c)]
    ELSE LET end_time == PlusMinutes(c, duration_minutes)
             conflict == HasConflict(c, end_time, existing, session)
         IN  IF ~IsSet(conflict)
             THEN [found |-> TRUE, candidate |-> c]
             ELSE [found |-> FALSE,
                   candidate |-> session[conflict[1]].scheduled_end[1]]

\* one pass of the while loop of _find_next_slot from candidate c:
\* the slot it returns, or the candidate of the next pass
FindNextSlotPass(c, duration_minutes, existing, session) ==
    IF ~IsWorkingHours(c, duration_minutes)
    THEN [found |-> FALSE, candidate |-> NextWorkingHour(c)]
    ELSE LET end_time == PlusMinutes(c, duration_minutes)
             conflict == HasConflict(c, end_time, existing, session)
         IN  IF ~IsSet(conflict)
             THEN [found |-> TRUE, candidate |-> c]
             ELSE [found |-> FALSE,
                   candidate |-> PlusMinutes(session[conflict[1]].scheduled_end[1],
                                             buffer_minutes)]

\* the committed row after a flush of the session object: the UPDATE
\* carries the columns whose value differs from the loaded one
Flushed(row, loaded, obj) ==
    [row EXCEPT
        !.scheduled_start = IF obj.scheduled_start # loaded.scheduled_start
                            THEN obj.scheduled_start ELSE @,
        !.scheduled_end = IF obj.scheduled_end # loaded.scheduled_end
                          THEN obj.scheduled_end ELSE @,
        !.status = IF obj.status # loaded.status THEN obj.status ELSE @]

\* slip: the status filter names the wrong status
OccupiedRowsNotScheduled(rows, user) ==
    {id \in DOMAIN rows :
        /\ rows[id].user_id = user
        /\ IsSet(rows[id].scheduled_start)
        /\ rows[id].status # "scheduled"}

\* slip: the query of the occupied rows lacks the user filter
OccupiedRowsAllUsers(rows, user) ==
    {id \in DOMAIN rows :
        /\ IsSet(rows[id].scheduled_start)
        /\ rows[id].status # "completed"}

\* slip: the query of the occupied rows lacks the status filter
OccupiedRowsWithCompleted(rows, user) ==
    {id \in DOMAIN rows :
        /\ rows[id].user_id = user
        /\ IsSet(rows[id].scheduled_start)}

\* the rows the query of auto_schedule selects: the user's tasks with a
\* scheduled_start that are not completed
OccupiedRows(rows, user) ==
    {id \in DOMAIN rows :
        /\ rows[id].user_id = user
        /\ IsSet(rows[id].scheduled_start)
        /\ rows[id].status # "completed"}

\* slip: the batch query lacks the user filter
BatchRowsAnyUser(rows, r) == {id \in DOMAIN rows : id \in r.task_ids}

\* the rows the batch query of schedule_tasks selects: the tasks named
\* in task_ids that belong to the requesting user
BatchRows(rows, r) ==
    {id \in DOMAIN rows : id \in r.task_ids /\ rows[id].user_id = r.user_id}

\* -------------------------------------------------------------- actions
\* TaskService.schedule_tasks, the batch query; a request without
\* auto_slot goes straight to the status loop
ScheduleTasks(p, r) ==
    /\ pc[p] \in {"idle", "done", "failed"}
    /\ requests < MaxRequests
    /\ requests' = requests + 1
    /\ req' = [req EXCEPT ![p] = r]
    /\ LET batch == BatchRows(db, r)
       IN  /\ \E order \in Orderings(batch) : tasks' = [tasks EXCEPT ![p] = order]
           /\ objs' = [objs EXCEPT ![p] = [id \in batch |-> db[id]]]
           /\ orig' = [orig EXCEPT ![p] = [id \in batch |-> db[id]]]
    /\ existing_tasks' = [existing_tasks EXCEPT ![p] = <<>>]
    /\ sorted_tasks' = [sorted_tasks EXCEPT ![p] = <<>>]
    /\ current_time' = [current_time EXCEPT ![p] = 0]
    /\ idx' = [idx EXCEPT ![p] = 0]
    /\ candidate' = [candidate EXCEPT ![p] = 0]
    /\ call' = [call EXCEPT ![p] = NoCall]
    /\ pc' = [pc EXCEPT ![p] = IF r.auto_slot THEN "auto_schedule" ELSE "commit"]
    /\ UNCHANGED db

\* AutoScheduler.auto_schedule up to the first pass of the for loop: the
\* query of the occupied rows, the sort of the batch, the cursor
AutoSchedule(p, now) ==
    /\ pc[p] = "auto_schedule"
    /\ LET occupied == OccupiedRows(db, req[p].user_id)
           session == [id \in (DOMAIN objs[p]) \cup occupied |->
                            IF id \in DOMAIN objs[p] THEN objs[p][id] ELSE db[id]]
           loaded == [id \in (DOMAIN objs[p]) \cup occupied |->
                            IF id \in DOMAIN objs[p] THEN orig[p][id] ELSE db[id]]
           sorted == StableSort(tasks[p], [id \in DOMAIN session |-> SortKey(session[id])])
           cursor == NextWorkingHour(now)
       IN  /\ \E order \in Orderings(occupied) :
                /\ \A i, j \in DOMAIN order :
                     i < j => db[order[i]].scheduled_start[1]
                                <= db[order[j]].scheduled_start[1]
                /\ existing_tasks' = [existing_tasks EXCEPT ![p] = order]
                /\ call' = [call EXCEPT ![p] = [now |-> now,
                                                 existing_tasks |-> order]]
           /\ objs' = [objs EXCEPT ![p] = session]
           /\ orig' = [orig EXCEPT ![p] = loaded]
           /\ sorted_tasks' = [sorted_tasks EXCEPT ![p] = sorted]
           /\ current_time' = [current_time EXCEPT ![p] = cursor]
           /\ idx' = [idx EXCEPT ![p] = 1]
           /\ candidate' = [candidate EXCEPT ![p] = cursor]
           /\ pc' = [pc EXCEPT ![p] = IF sorted = <<>> THEN "commit" ELSE "find"]
    /\ UNCHANGED <<db, req, tasks, requests>>

\* a pass of the while loop that moves the candidate on
SearchStep(p) ==
    /\ pc[p] = "find"
    /\ IsSet(CurrentDuration(p))
    /\ LET pass == FindNextSlotPass(candidate[p], CurrentDuration(p)[1],
                                    existing_tasks[p], objs[p])
       IN  /\ ~pass.found
           /\ candidate' = [candidate EXCEPT ![p] = pass.candidate]
    /\ UNCHANGED <<db, pc, req, objs, orig, tasks, existing_tasks, sorted_tasks,
                   current_time, idx, call, requests>>

\* timedelta(minutes=None) raises TypeError; the request ends without a commit
SearchFails(p) ==
    /\ pc[p] = "find"
    /\ ~IsSet(CurrentDuration(p))
    /\ pc' = [pc EXCEPT ![p] = "failed"]
    /\ UNCHANGED <<db, req, objs, orig, frame, requests>>

\* the pass that returns the slot, and the rest of the for loop body:
\* the assignment, the append and sort, the cursor
PlaceTask(p) ==
    /\ pc[p] = "find"
    /\ IsSet(CurrentDuration(p))
    /\ LET t == CurrentTask(p)
           duration_minutes == CurrentDuration(p)[1]
           pass == FindNextSlotPass(candidate[p], duration_minutes,
                                    existing_tasks[p], objs[p])
           slot_start == pass.candidate
           slot_end == PlusMinutes(slot_start, duration_minutes)
           session == [objs[p] EXCEPT ![t].scheduled_start = Some(slot_start),
                                      ![t].scheduled_end = Some(slot_end)]
           appended == Append(existing_tasks[p], t)
           starts == [id \in DOMAIN session |->
                        IF IsSet(session[id].scheduled_start)
                        THEN <<session[id].scheduled_start[1], 0>> ELSE None]
           cursor == PlusMinutes(slot_end, buffer_minutes)
       IN  /\ pass.found
           /\ objs' = [objs EXCEPT ![p] = session]
           /\ IF \E i \in DOMAIN appended : ~IsSet(session[appended[i]].scheduled_start)
              THEN \* the sort key compares None with a datetime: TypeError
                   /\ pc' = [pc EXCEPT ![p] = "failed"]
                   /\ UNCHANGED frame
              ELSE /\ existing_tasks' = [existing_tasks EXCEPT
                                            ![p] = StableSort(appended, starts)]
                   /\ current_time' = [current_time EXCEPT ![p] = cursor]
                   /\ idx' = [idx EXCEPT ![p] = @ + 1]
                   /\ candidate' = [candidate EXCEPT ![p] = cursor]
                   /\ pc' = [pc EXCEPT ![p] = IF idx[p] = Len(sorted_tasks[p])
                                              THEN "commit" ELSE "find"]
                   /\ UNCHANGED <<tasks, sorted_tasks, call>>
    /\ UNCHANGED <<db, req, orig, requests>>

\* the status loop of schedule_tasks and db.commit()
Commit(p) ==
    /\ pc[p] = "commit"
    /\ LET marked == Range(ScheduledTasks(p))
           session == [id \in DOMAIN objs[p] |->
                          IF id \in marked
                          THEN [objs[p][id] EXCEPT !.status = "scheduled"]
                          ELSE objs[p][id]]
       IN  /\ objs' = [objs EXCEPT ![p] = session]
           /\ db' = [id \in TaskIds |->
                        IF id \in DOMAIN session
                        THEN Flushed(db[id], orig[p][id], session[id])
                        ELSE db[id]]
    /\ pc' = [pc EXCEPT ![p] = "done"]
    /\ UNCHANGED <<req, orig, frame, requests>>

Step(p) ==
    \/ \E r \in Requests : ScheduleTasks(p, r)
    \/ \E now \in NowChoices : AutoSchedule(p, now)
    \/ SearchStep(p)
    \/ SearchFails(p)
    \/ PlaceTask(p)
    \/ Commit(p)

\* requests served one after the other by one worker
Next == Step(1)

Spec == Init /\ [][Next]_vars

\* two workers serving requests of the same user at the same time, with
\* nothing between them but the database
ConcurrentRequests ==
    {Request(1, {1}, TRUE), Request(1, {2}, TRUE), Request(1, {1, 2}, TRUE)}

ConcurrentNows == {At(1, 9, 0), At(1, 17, 30)}

InitConcurrent ==
    /\ Init
    /\ db[2].duration_minutes \in {Some(45), Some(120), None}
    /\ db[3] = Booked(1, At(1, 9, 0), 60)

StepConcurrent(p) ==
    \/ \E r \in ConcurrentRequests : ScheduleTasks(p, r)
    \/ \E now \in ConcurrentNows : AutoSchedule(p, now)
    \/ SearchStep(p)
    \/ SearchFails(p)
    \/ PlaceTask(p)
    \/ Commit(p)

NextConcurrent == \E p \in Workers : StepConcurrent(p)

SpecConcurrent == InitConcurrent /\ [][NextConcurrent]_vars

\* two workers as above, over batches that hold a task of negative
\* duration
InitReschedule ==
    /\ Init
    /\ db[2].duration_minutes \in {Some(45), Some(-30), None}
    /\ db[3] = Booked(1, At(1, 9, 0), 60)

SpecReschedule == InitReschedule /\ [][NextConcurrent]_vars

\* one call of auto_schedule, from the batch query to its return, over
\* batches that differ in priority, due date and duration and calendars
\* that differ in the rows occupying them
PriorityDueChoices1 ==
    {<<"medium", None>>, <<"low", None>>, <<"medium", Some(At(3, 12, 0))>>,
     <<"high", Some(At(2, 12, 0))>>}

\* "null" stands for a priority column that is NULL
PriorityDueChoices2 ==
    {<<"urgent", None>>, <<"null", None>>, <<"medium", Some(At(2, 12, 0))>>,
     <<"null", Some(At(3, 12, 0))>>}

SchedulerDurationChoices == {Some(45), Some(-30), None}

\* a task whose scheduled_start was set by an update that carries no
\* scheduled_end
StartOnly(user, start) ==
    [NewTask(user, "medium", None, Some(30)) EXCEPT !.scheduled_start = Some(start)]

CalendarChoices ==
    {<<Booked(1, At(1, 9, 0), 60), NewTask(2, "medium", None, Some(30))>>,
     <<Booked(1, At(1, 17, 0), 30), Booked(1, At(1, 9, 30), 30)>>,
     <<NewTask(1, "high", None, Some(60)), StartOnly(1, At(1, 9, 0))>>,
     <<NewTask(1, "medium", None, Some(60)), NewTask(2, "medium", None, Some(30))>>}

SchedulerDBs ==
    {[id \in TaskIds |->
        CASE id = 1 -> NewTask(1, a[1], a[2], Some(30))
          [] id = 2 -> NewTask(1, b[1], b[2], d)
          [] id = 3 -> c[1]
          [] OTHER -> c[2]]
     : a \in PriorityDueChoices1, b \in PriorityDueChoices2,
       d \in SchedulerDurationChoices, c \in CalendarChoices}

SchedulerNows ==
    {At(1, 8, 0), At(1, 8, 20) + 30 * Second + 1, At(1, 17, 30), At(1, 19, 0)}

SchedulerRequests ==
    {Request(1, {1}, TRUE), Request(1, {1, 2}, TRUE), Request(1, {1, 2, 3}, TRUE)}

InitScheduler ==
    /\ db \in SchedulerDBs
    /\ pc = [p \in Workers |-> "idle"]
    /\ req = [p \in Workers |-> NoRequest]
    /\ objs = [p \in Workers |-> NoObjects]
    /\ orig = [p \in Workers |-> NoObjects]
    /\ tasks = [p \in Workers |-> <<>>]
    /\ existing_tasks = [p \in Workers |-> <<>>]
    /\ sorted_tasks = [p \in Workers |-> <<>>]
    /\ current_time = [p \in Workers |-> 0]
    /\ idx = [p \in Workers |-> 0]
    /\ candidate = [p \in Workers |-> 0]
    /\ call = [p \in Workers |-> NoCall]
    /\ requests = 0

NextScheduler ==
    \/ \E r \in SchedulerRequests : ScheduleTasks(1, r)
    \/ \E now \in SchedulerNows : AutoSchedule(1, now)
    \/ SearchStep(1)
    \/ SearchFails(1)
    \/ PlaceTask(1)

SpecScheduler == InitScheduler /\ [][NextScheduler]_vars

\* two users, each with a worker serving that user's requests, the two
\* running at the same time
TwoUsersDBs ==
    {[id \in TaskIds |->
        CASE id = 1 -> NewTask(1, "high", None, Some(30))
          [] id = 2 -> a
          [] id = 3 -> NewTask(2, "medium", None, d)
          [] OTHER -> b]
     : a \in {Booked(1, At(1, 9, 0), 60), NewTask(1, "medium", None, Some(45))},
       b \in {Booked(2, At(1, 9, 0), 30), NewTask(2, "low", None, Some(30))},
       d \in {Some(45), None}}

\* worker 1 serves user 1 and worker 2 user 2; each request names a
\* task of the other user among its ids
TwoUsersRequests ==
    {Request(1, {1, 2, 3}, TRUE), Request(1, {1}, TRUE),
     Request(2, {1, 3, 4}, TRUE), Request(2, {3}, TRUE)}

TwoUsersNows == {At(1, 9, 0), At(1, 17, 30)}

InitTwoUsers ==
    /\ db \in TwoUsersDBs
    /\ pc = [p \in Workers |-> "idle"]
    /\ req = [p \in Workers |-> NoRequest]
    /\ objs = [p \in Workers |-> NoObjects]
    /\ orig = [p \in Workers |-> NoObjects]
    /\ tasks = [p \in Workers |-> <<>>]
    /\ existing_tasks = [p \in Workers |-> <<>>]
    /\ sorted_tasks = [p \in Workers |-> <<>>]
    /\ current_time = [p \in Workers |-> 0]
    /\ idx = [p \in Workers |-> 0]
    /\ candidate = [p \in Workers |-> 0]
    /\ call = [p \in Workers |-> NoCall]
    /\ requests = 0

StepTwoUsers(p) ==
    \/ \E r \in TwoUsersRequests : r.user_id = p /\ ScheduleTasks(p, r)
    \/ \E now \in TwoUsersNows : AutoSchedule(p, now)
    \/ SearchStep(p)
    \/ SearchFails(p)
    \/ PlaceTask(p)
    \/ Commit(p)

NextTwoUsers == \E p \in Workers : StepTwoUsers(p)

SpecTwoUsers == InitTwoUsers /\ [][NextTwoUsers]_vars

\* ------------------------------------------------- the task lifecycle
\* an id of the table under which no task is stored: user 0 is no user,
\* and every query filters on the user
NoRow == NewTask(0, "medium", None, Some(30))

\* TaskCreate: duration_minutes is validated to 5..480, there are no
\* scheduling fields
CreateChoices ==
    {[priority |-> "medium", due_date |-> None, duration_minutes |-> 30],
     [priority |-> "urgent", due_date |-> Some(At(2, 12, 0)), duration_minutes |-> 480]}

\* TaskUpdate: each field is absent from the body (None), or present
\* with a value (Some(v)), which for the datetime fields may be null
NoUpdate ==
    [due_date |-> None, scheduled_start |-> None, status |-> None, priority |-> None]

UpdateChoices ==
    {[NoUpdate EXCEPT !.scheduled_start = Some(Some(At(1, 14, 0)))],
     [NoUpdate EXCEPT !.scheduled_start = Some(None)],
     [NoUpdate EXCEPT !.status = Some("archived")],
     [NoUpdate EXCEPT !.status = Some("inbox"), !.priority = Some("low")],
     [NoUpdate EXCEPT !.due_date = Some(Some(At(2, 12, 0)))]}

LifecycleDBs ==
    {[id \in TaskIds |->
        CASE id = 1 -> NewTask(1, "high", None, d)
          [] id = 2 -> [Booked(1, At(1, 9, 0), 60) EXCEPT !.status = st]
          [] id = 3 -> NewTask(2, "medium", None, Some(30))
          [] OTHER -> NoRow]
     : d \in {Some(30), None}, st \in {"scheduled", "inbox", "archived"}}

LifecycleRequests == {Request(1, {1, 3, 4}, TRUE), Request(1, {2}, TRUE)}

LifecycleNows == {At(1, 9, 0)}

InitLifecycle ==
    /\ db \in LifecycleDBs
    /\ pc = [p \in Workers |-> "idle"]
    /\ req = [p \in Workers |-> NoRequest]
    /\ objs = [p \in Workers |-> NoObjects]
    /\ orig = [p \in Workers |-> NoObjects]
    /\ tasks = [p \in Workers |-> <<>>]
    /\ existing_tasks = [p \in Workers |-> <<>>]
    /\ sorted_tasks = [p \in Workers |-> <<>>]
    /\ current_time = [p \in Workers |-> 0]
    /\ idx = [p \in Workers |-> 0]
    /\ candidate = [p \in Workers |-> 0]
    /\ call = [p \in Workers |-> NoCall]
    /\ requests = 0

\* a request other than schedule_tasks is served by worker p from start
\* to commit
ServesRequest(p) ==
    /\ pc[p] \in {"idle", "done", "failed"}
    /\ requests < MaxRequests
    /\ requests' = requests + 1
    /\ UNCHANGED <<pc, req, objs, orig, frame>>

\* TaskService.create_task: the row gets the next free id
CreateTask(p, user, data) ==
    /\ ServesRequest(p)
    /\ \E id \in TaskIds :
          /\ db[id] = NoRow
          /\ \A other \in TaskIds : db[other] = NoRow => id <= other
          /\ db' = [db EXCEPT ![id] = NewTask(user, data.priority, data.due_date,
                                              Some(data.duration_minutes))]

\* TaskService.update_task: setattr for every field present in the body
UpdateTask(p, user, id, data) ==
    /\ ServesRequest(p)
    /\ db[id].user_id = user
    /\ db' = [db EXCEPT ![id] =
                [@ EXCEPT
                    !.due_date = IF IsSet(data.due_date) THEN data.due_date[1] ELSE @,
                    !.scheduled_start = IF IsSet(data.scheduled_start)
                                        THEN data.scheduled_start[1] ELSE @,
                    !.status = IF IsSet(data.status) THEN data.status[1] ELSE @,
                    !.priority = IF IsSet(data.priority) THEN data.priority[1] ELSE @]]

\* TaskService.complete_task
CompleteTask(p, user, id) ==
    /\ ServesRequest(p)
    /\ db[id].user_id = user
    /\ db' = [db EXCEPT ![id].status = "completed"]

NextLifecycle ==
    \/ \E r \in LifecycleRequests : ScheduleTasks(1, r)
    \/ \E now \in LifecycleNows : AutoSchedule(1, now)
    \/ SearchStep(1)
    \/ SearchFails(1)
    \/ PlaceTask(1)
    \/ Commit(1)
    \/ \E data \in CreateChoices : CreateTask(1, 1, data)
    \/ \E id \in TaskIds, data \in UpdateChoices : UpdateTask(1, 1, id, data)
    \/ \E id \in TaskIds : CompleteTask(1, 1, id)

SpecLifecycle == InitLifecycle /\ [][NextLifecycle]_vars

\* ------------------------------------------------- vocabulary of claims
HasInterval(t) == IsSet(t.scheduled_start) /\ IsSet(t.scheduled_end)

\* the half-open test of the specification: NOT (a.end <= b.start OR
\* a.start >= b.end)
TasksOverlap(a, b) ==
    /\ HasInterval(a)
    /\ HasInterval(b)
    /\ ~(a.scheduled_end[1] <= b.scheduled_start[1]
            \/ a.scheduled_start[1] >= b.scheduled_end[1])

\* no two distinct tasks among ids overlap, as rows sees them
OverlapFree(rows, ids) ==
    \A a, b \in ids : a # b => ~TasksOverlap(rows[a], rows[b])

\* the committed calendar of a user: the rows with an interval that are
\* not completed
Calendar(rows, user) ==
    {id \in TaskIds : /\ rows[id].user_id = user
                      /\ HasInterval(rows[id])
                      /\ rows[id].status # "completed"}

CommittedOverlapFree(rows) ==
    \A u \in Users : OverlapFree(rows, Calendar(rows, u))

\* the tasks the running call has placed so far
Placed(p) == {sorted_tasks[p][i] : i \in 1..(idx[p] - 1)}

\* auto_schedule has returned to schedule_tasks
Returned(p) == req[p].auto_slot /\ pc[p] \in {"commit", "done"}

\* the length of the working day in minutes
WorkingDayMinutes == (working_hours_end - working_hours_start) * 60

DayOf(dt) == dt \div Day
Opening(d) == At(d, working_hours_start, 0)
Closing(d) == At(d, working_hours_end, 0)

\* the pass the while loop makes next for worker p
NextPass(p) ==
    FindNextSlotPass(candidate[p], CurrentDuration(p)[1], existing_tasks[p], objs[p])

\* the loop of _find_next_slot has reached a pass that changes nothing
Spinning(p) ==
    /\ pc[p] = "find"
    /\ IsSet(CurrentDuration(p))
    /\ ~NextPass(p).found
    /\ NextPass(p).candidate = candidate[p]

\* ---------------------------------------------------------------- C1
\* C1: when auto_schedule returns, and the intervals it loaded were free
\* of overlaps, no two distinct tasks of the occupied list (loaded and
\* newly placed) overlap under the half-open test.
C1_NoOverlap ==
    \A p \in Workers :
        (Returned(p) /\ OverlapFree(orig[p], DOMAIN orig[p]))
            => OverlapFree(objs[p], Range(existing_tasks[p]))

\* a call has returned two placements next to a loaded interval that was
\* in the way of the first candidate
C1_Witness ==
    \E p \in Workers :
        /\ pc[p] = "commit"
        /\ Len(sorted_tasks[p]) = 2
        /\ \E e \in Range(existing_tasks[p]) \ Range(sorted_tasks[p]) :
              /\ TasksOverlap(objs[p][e],
                    [scheduled_start |-> Some(NextWorkingHour(At(1, 9, 0))),
                     scheduled_end |-> Some(At(1, 9, 30))])
              /\ objs[p][sorted_tasks[p][1]].scheduled_start[1]
                    >= objs[p][e].scheduled_end[1]

\* ---------------------------------------------------------------- C2
\* C2: every task placed by auto_schedule starts and ends between the
\* opening and the closing time of one and the same calendar day.
C2_WorkingHoursContainment ==
    \A p \in Workers : \A t \in Placed(p) :
        LET s == objs[p][t].scheduled_start[1]
            e == objs[p][t].scheduled_end[1]
        IN  /\ Opening(DayOf(s)) <= s
            /\ s <= Closing(DayOf(s))
            /\ Opening(DayOf(s)) <= e
            /\ e <= Closing(DayOf(s))

\* ---------------------------------------------------------------- C3
\* C3: with every duration of the batch in 1..540 and an overlap-free
\* finite occupied list, the slot search returns: no pass of the while
\* loop leaves the candidate where it was (a pass that does so repeats
\* for ever, the loop having no other state).
C3_SearchTerminates ==
    \A p \in Workers :
        (/\ pc[p] = "find"
         /\ \A t \in Range(sorted_tasks[p]) :
               /\ IsSet(objs[p][t].duration_minutes)
               /\ objs[p][t].duration_minutes[1] > 0
               /\ objs[p][t].duration_minutes[1] <= WorkingDayMinutes
         /\ OverlapFree(orig[p], DOMAIN orig[p]))
            => ~Spinning(p)

\* ---------------------------------------------------------------- C4
\* C4: when the candidate lies inside working hours and candidate +
\* duration falls after closing time, the pass does not return the
\* candidate and the next candidate is 09:00 of the following day.
C4_EndOfDayRollover ==
    \A p \in Workers :
        (/\ pc[p] = "find"
         /\ IsSet(CurrentDuration(p))
         /\ Opening(DayOf(candidate[p])) <= candidate[p]
         /\ candidate[p] < Closing(DayOf(candidate[p]))
         /\ PlusMinutes(candidate[p], CurrentDuration(p)[1])
                > Closing(DayOf(candidate[p])))
            => /\ ~NextPass(p).found
               /\ NextPass(p).candidate >= Opening(DayOf(candidate[p]) + 1)
               /\ NextPass(p).candidate < Opening(DayOf(candidate[p]) + 1) + Second

\* ---------------------------------------------------------------- C5
\* C5: every task auto_schedule returns has scheduled_start and
\* scheduled_end set, duration_minutes minutes apart.
C5_DurationFidelity ==
    \A p \in Workers :
        Returned(p) =>
            \A t \in Range(sorted_tasks[p]) :
                /\ HasInterval(objs[p][t])
                /\ objs[p][t].scheduled_end[1] - objs[p][t].scheduled_start[1]
                      = objs[p][t].duration_minutes[1] * Minute

\* a call has returned a batch of two tasks
C5_Witness ==
    \E p \in Workers :
        /\ pc[p] = "commit"
        /\ req[p].auto_slot
        /\ Len(sorted_tasks[p]) = 2
        /\ \A t \in Range(sorted_tasks[p]) : ~HasInterval(orig[p][t])

\* ---------------------------------------------------------------- C6
\* C6: a task whose duration_minutes is zero or negative is never given
\* a scheduled_start and scheduled_end; the call reports an error.
C6_NonPositiveRejected ==
    \A p \in Workers : \A t \in Placed(p) :
        objs[p][t].duration_minutes[1] > 0

\* ---------------------------------------------------------------- C7
\* C7: a task longer than the working day is neither placed nor searched
\* for without end; the call fails.
C7_OversizedRejected ==
    \A p \in Workers :
        /\ \A t \in Placed(p) : objs[p][t].duration_minutes[1] <= WorkingDayMinutes
        /\ (pc[p] = "find" /\ IsSet(CurrentDuration(p))
              /\ CurrentDuration(p)[1] > WorkingDayMinutes) => ~Spinning(p)

\* ---------------------------------------------------------------- C8
\* C8: when a scheduling call fails, no task of the batch has had its
\* scheduled_start, scheduled_end or status changed.
C8_AllOrNothing ==
    \A p \in Workers :
        pc[p] = "failed" =>
            \A t \in Range(tasks[p]) :
                /\ objs[p][t].scheduled_start = orig[p][t].scheduled_start
                /\ objs[p][t].scheduled_end = orig[p][t].scheduled_end
                /\ objs[p][t].status = orig[p][t].status

\* ---------------------------------------------------------------- C9
\* C9: among concurrent calls for one user, a commit makes two committed
\* intervals overlap only if the committing call lacks a placement that
\* another call committed after it had loaded the rows: its snapshot of
\* the user's calendar is stale.  Calls that load after the previous
\* commit never commit an overlap.
StaleSnapshot(p) ==
    \E id \in Calendar(db, req[p].user_id) :
        \/ id \notin DOMAIN orig[p]
        \/ orig[p][id].scheduled_start # db[id].scheduled_start
        \/ orig[p][id].scheduled_end # db[id].scheduled_end

C9_OverlapOnlyWhenInterleaved ==
    [][(CommittedOverlapFree(db) /\ ~CommittedOverlapFree(db'))
          => \E p \in Workers :
                /\ pc[p] = "commit"
                /\ pc'[p] = "done"
                /\ StaleSnapshot(p)]_vars

\* two workers have each committed a placement, neither having loaded
\* the other's, and the two placements overlap
C9_Witness ==
    \E a, b \in Calendar(db, 1) :
        /\ a # b
        /\ pc[1] = "done" /\ a \in Range(sorted_tasks[1])
        /\ pc[2] = "done" /\ b \in Range(sorted_tasks[2])
        /\ b \notin Range(existing_tasks[1])
        /\ a \notin Range(existing_tasks[2])
        /\ TasksOverlap(db[a], db[b])

\* --------------------------------------------------------------- C10
\* C10: with the calls served one after the other, each loading the
\* placements the earlier ones committed, no two committed intervals of
\* a user overlap.
C10_FeedbackNoOverlap == CommittedOverlapFree(db)

\* a second call has committed its placement, having loaded as occupied
\* the placement an earlier call committed for another task
C10_Witness ==
    /\ requests = 2
    /\ pc[1] = "done"
    /\ req[1].auto_slot
    /\ \E a, b \in Calendar(db, 1) :
          /\ a # b
          /\ sorted_tasks[1] = <<b>>
          /\ a \in Range(existing_tasks[1])
          /\ ~HasInterval(orig[1][b])
          /\ db[a].status = "scheduled"
          /\ a \in {1, 2}

\* --------------------------------------------------------------- C11
\* the two calls were given the same batch in the same order, the same
\* rows as loaded, the same occupied list and the same reading of the
\* clock
SameInputs(p, q) ==
    /\ req[p].auto_slot
    /\ req[q].auto_slot
    /\ tasks[p] = tasks[q]
    /\ orig[p] = orig[q]
    /\ call[p] = call[q]

ClaimedWeight(t) ==
    IF t.priority = "urgent" THEN 0
    ELSE IF t.priority = "high" THEN 1
    ELSE IF t.priority = "low" THEN 3
    ELSE 2

GoesBefore(a, b) ==
    \/ ClaimedWeight(a) < ClaimedWeight(b)
    \/ /\ ClaimedWeight(a) = ClaimedWeight(b)
       /\ IsSet(a.due_date)
       /\ ~IsSet(b.due_date) \/ a.due_date[1] < b.due_date[1]

PositionIn(seq, x) == CHOOSE i \in DOMAIN seq : seq[i] = x

\* auto_schedule has sorted the batch of worker p
Sorted(p) == req[p].auto_slot /\ pc[p] \in {"find", "commit", "done", "failed"}

\* C12: the batch is placed in the order of a stable sort on (priority
\* weight, due date): weights urgent 0, high 1, medium 2, low 3, any
\* other priority 2; due dates ascending, an absent due date last within
\* its priority; tasks with equal keys in their input order.  The tasks
\* placed so far are the first ones of that order.
C12_PlacementOrder ==
    \A p \in Workers :
        Sorted(p) =>
            /\ Len(sorted_tasks[p]) = Len(tasks[p])
            /\ Range(sorted_tasks[p]) = Range(tasks[p])
            /\ \A i, j \in DOMAIN sorted_tasks[p] :
                  i < j =>
                    LET a == sorted_tasks[p][i]
                        b == sorted_tasks[p][j]
                    IN  /\ ~GoesBefore(objs[p][b], objs[p][a])
                        /\ ~GoesBefore(objs[p][a], objs[p][b])
                              => PositionIn(tasks[p], a) < PositionIn(tasks[p], b)
                        /\ (objs[p][b].scheduled_start # orig[p][b].scheduled_start
                              \/ objs[p][b].scheduled_end # orig[p][b].scheduled_end)
                              => HasInterval(objs[p][a])

\* a batch given as low, medium without due date, NULL priority with a
\* due date has been placed in the order NULL priority, medium, low
C12_Witness ==
    /\ pc[1] = "commit"
    /\ tasks[1] = <<1, 3, 2>>
    /\ sorted_tasks[1] = <<2, 3, 1>>
    /\ objs[1][1].priority = "low"
    /\ objs[1][2].priority = "null" /\ IsSet(objs[1][2].due_date)
    /\ objs[1][3].priority = "medium" /\ ~IsSet(objs[1][3].due_date)
    /\ objs[1][2].scheduled_start[1] < objs[1][3].scheduled_start[1]
    /\ objs[1][3].scheduled_start[1] < objs[1][1].scheduled_start[1]

\* --------------------------------------------------------------- C13
\* C13: of two tasks of one batch without due dates and with different
\* priority weights, both placed by the call, the one of higher priority
\* (lower weight) has a scheduled_start at or before the other's,
\* whatever the occupied rows and the durations.
C13_PriorityOrdering ==
    \A p \in Workers : \A a, b \in Placed(p) :
        (/\ ~IsSet(objs[p][a].due_date)
         /\ ~IsSet(objs[p][b].due_date)
         /\ ClaimedWeight(objs[p][a]) < ClaimedWeight(objs[p][b]))
            => objs[p][a].scheduled_start[1] <= objs[p][b].scheduled_start[1]

\* --------------------------------------------------------------- C14
\* the window [s, e) lies within the working hours of one day
WithinWorkingDay(s, e) ==
    /\ Opening(DayOf(s)) <= s
    /\ s <= e
    /\ e <= Closing(DayOf(s))

\* the window [s, e) overlaps no interval of the occupied list of p
FreeOfOccupied(p, s, e) ==
    \A x \in Range(existing_tasks[p]) :
        ~TasksOverlap([scheduled_start |-> Some(s), scheduled_end |-> Some(e)],
                      objs[p][x])

SlotFits(p, s) ==
    LET e == s + CurrentDuration(p)[1] * Minute
    IN  WithinWorkingDay(s, e) /\ FreeOfOccupied(p, s, e)

\* C14: the start the search returns for a task is the earliest instant
\* s at or after the cursor whose window [s, s + duration) lies within
\* the working hours of a single day and overlaps no occupied interval:
\* it satisfies both conditions and no instant from the cursor up to it
\* does.
C14_EarliestSlot ==
    \A p \in Workers :
        (pc[p] = "find" /\ IsSet(CurrentDuration(p)) /\ NextPass(p).found)
            => /\ candidate[p] >= current_time[p]
               /\ SlotFits(p, candidate[p])
               /\ \A s \in current_time[p]..(candidate[p] - 1) : ~SlotFits(p, s)

\* --------------------------------------------------------------- C15
\* the occupied tasks the window of the current candidate overlaps
Blockers(p) ==
    LET s == candidate[p]
        e == s + CurrentDuration(p)[1] * Minute
    IN  {x \in Range(existing_tasks[p]) :
            TasksOverlap([scheduled_start |-> Some(s), scheduled_end |-> Some(e)],
                         objs[p][x])}

\* the search of p is at the conflict check: the candidate has passed
\* the working-hours check
AtConflictCheck(p) ==
    /\ pc[p] = "find"
    /\ IsSet(CurrentDuration(p))
    /\ IsWorkingHours(candidate[p], CurrentDuration(p)[1])

\* C15: when the window of the candidate overlaps an occupied interval
\* X, the next candidate examined is X.end + buffer_minutes (15 min),
\* for the same task; when it overlaps none, the task is placed at the
\* candidate.  So a task placed right after a conflict starts exactly
\* 15 minutes after the end of the blocking interval when that instant
\* is free and inside working hours.
C15_ConflictJump ==
    [][\A p \in Workers :
          AtConflictCheck(p) =>
              IF Blockers(p) # {}
              THEN /\ pc'[p] = "find"
                   /\ idx'[p] = idx[p]
                   /\ objs'[p] = objs[p]
                   /\ \E x \in Blockers(p) :
                         candidate'[p] = objs[p][x].scheduled_end[1] + 15 * Minute
              ELSE /\ objs'[p][CurrentTask(p)].scheduled_start = Some(candidate[p])
                   /\ idx'[p] = idx[p] + 1]_vars

\* with [09:00,10:00) occupied, a 30-minute task requested at 08:00 has
\* been placed at [10:15,10:45)
C15_Witness ==
    /\ pc[1] = "commit"
    /\ call[1].now = At(1, 8, 0)
    /\ sorted_tasks[1] = <<1>>
    /\ existing_tasks[1] = <<3, 1>>
    /\ objs[1][3].scheduled_start = Some(At(1, 9, 0))
    /\ objs[1][3].scheduled_end = Some(At(1, 10, 0))
    /\ objs[1][1].duration_minutes = Some(30)
    /\ objs[1][1].scheduled_start = Some(At(1, 10, 15))
    /\ objs[1][1].scheduled_end = Some(At(1, 10, 45))

\* --------------------------------------------------------------- C16
\* the first working-hour instant at or after now
FirstWorkingInstant(now) ==
    IF now < Opening(DayOf(now)) THEN Opening(DayOf(now))
    ELSE IF now >= Closing(DayOf(now)) THEN Opening(DayOf(now) + 1)
    ELSE now

\* C16: the cursor a call starts from is the first working-hour instant
\* at or after now: 09:00 of the same day when now is before 09:00,
\* 09:00 of the next day when now is at or after 18:00, now itself
\* otherwise; the first task of a call that found nothing occupied is
\* placed there when it is a 30-minute task.
C16_CursorInitialization ==
    \A p \in Workers :
        /\ (pc[p] = "find" /\ idx[p] = 1)
              => current_time[p] = FirstWorkingInstant(call[p].now)
        /\ (/\ Returned(p)
            /\ sorted_tasks[p] # <<>>
            /\ call[p].existing_tasks = <<>>
            /\ objs[p][sorted_tasks[p][1]].duration_minutes = Some(30))
              => objs[p][sorted_tasks[p][1]].scheduled_start
                    = Some(FirstWorkingInstant(call[p].now))

\* --------------------------------------------------------------- C17
\* C17: of two tasks placed in the same call, the one placed later
\* starts at least buffer_minutes (15 min) after the scheduled_end of
\* the one placed earlier, and after its scheduled_start: starts grow
\* strictly in placement order and no earlier gap is filled afterwards.
C17_BufferBetweenPlacements ==
    \A p \in Workers : \A i, j \in 1..(idx[p] - 1) :
        i < j =>
            LET earlier == objs[p][sorted_tasks[p][i]]
                later == objs[p][sorted_tasks[p][j]]
            IN  /\ later.scheduled_start[1] >= earlier.scheduled_end[1] + 15 * Minute
                /\ later.scheduled_start[1] > earlier.scheduled_start[1]

\* --------------------------------------------------------------- C18
\* the call of _has_conflict the search of p makes at its candidate
ConflictHere(p) ==
    HasConflict(candidate[p], candidate[p] + CurrentDuration(p)[1] * Minute,
                existing_tasks[p], objs[p])

\* task x of the session of p has both ends set and satisfies
\* NOT (end <= x.scheduled_start OR start >= x.scheduled_end) for the
\* window [start, end) of the candidate
HitBy(p, x) ==
    LET start == candidate[p]
        end == candidate[p] + CurrentDuration(p)[1] * Minute
        task == objs[p][x]
    IN  /\ task.scheduled_start # None
        /\ task.scheduled_end # None
        /\ ~(end <= task.scheduled_start[1] \/ start >= task.scheduled_end[1])

\* the window of the candidate touches the interval of task x
TouchedBy(p, x) ==
    /\ objs[p][x].scheduled_start # None
    /\ objs[p][x].scheduled_end # None
    /\ \/ candidate[p] + CurrentDuration(p)[1] * Minute = objs[p][x].scheduled_start[1]
       \/ candidate[p] = objs[p][x].scheduled_end[1]

\* C18: _has_conflict(start, end, tasks) returns a task if and only if
\* some task of the list with both scheduled_start and scheduled_end set
\* satisfies NOT (end <= task.scheduled_start OR start >= task.scheduled_end),
\* and the task it returns is such a task of the list; a task whose
\* interval the window only touches (end = its start, or start = its
\* end) is not returned.
C18_HalfOpenConflictRule ==
    \A p \in Workers :
        AtConflictCheck(p) =>
            /\ IsSet(ConflictHere(p))
                  <=> \E x \in Range(existing_tasks[p]) : HitBy(p, x)
            /\ IsSet(ConflictHere(p))
                  => /\ ConflictHere(p)[1] \in Range(existing_tasks[p])
                     /\ HitBy(p, ConflictHere(p)[1])
                     /\ ~TouchedBy(p, ConflictHere(p)[1])

\* the candidate window starts where an occupied interval ends and
\* _has_conflict returns nothing
C18_Witness ==
    /\ AtConflictCheck(1)
    /\ CurrentDuration(1)[1] > 0
    /\ \E x \in Range(existing_tasks[1]) :
          TouchedBy(1, x) /\ candidate[1] = objs[1][x].scheduled_end[1]
    /\ ~IsSet(ConflictHere(1))

\* --------------------------------------------------------------- C19
\* C19: the list auto_schedule returns holds exactly the tasks it was
\* given, each once, and is in the order of the sort (by priority
\* weight, then due date), not in the order of the input.
C19_ReturnedList ==
    \A p \in Workers :
        Returned(p) =>
            LET returned == ScheduledTasks(p)
            IN  /\ Len(returned) = Len(tasks[p])
                /\ \A t \in Range(tasks[p]) :
                      Cardinality({i \in DOMAIN returned : returned[i] = t}) = 1
                /\ \A i \in DOMAIN returned : returned[i] \in Range(tasks[p])
                /\ \A i, j \in DOMAIN returned :
                      i < j => ~GoesBefore(objs[p][returned[j]], objs[p][returned[i]])

\* a call given three tasks has returned them in another order than it
\* was given them
C19_Witness ==
    /\ pc[1] = "commit"
    /\ req[1].auto_slot
    /\ tasks[1] = <<1, 2, 3>>
    /\ ScheduledTasks(1) = <<2, 3, 1>>
    /\ \A t \in {1, 2, 3} : HasInterval(objs[1][t])

\* --------------------------------------------------------------- C20
\* C20: after a schedule_tasks call, with or without auto_slot, every
\* task of the returned list has status SCHEDULED and scheduled_start
\* and scheduled_end set; no committed task has status SCHEDULED and no
\* scheduled_start.
C20_ScheduleResponse ==
    /\ \A p \in Workers :
          pc[p] = "done" =>
              \A t \in Range(ScheduledTasks(p)) :
                  /\ objs[p][t].status = "scheduled"
                  /\ HasInterval(objs[p][t])
    /\ \A id \in TaskIds :
          db[id].status = "scheduled" => IsSet(db[id].scheduled_start)

\* --------------------------------------------------------------- C21
\* auto_schedule is running or has returned or failed, and the caller
\* has not gone on to the status loop
InAutoSchedule(p) == req[p].auto_slot /\ pc[p] \in {"find", "commit", "failed"}

\* C21: auto_schedule changes scheduled_start and scheduled_end only on
\* the tasks of the batch it has reached in its loop; every occupied
\* task outside the batch keeps its start and end, and no task's
\* priority, due_date, duration_minutes or status is changed before
\* auto_schedule returns (the status is set by schedule_tasks after).
C21_FrameOnExisting ==
    \A p \in Workers :
        InAutoSchedule(p) =>
            \A id \in DOMAIN objs[p] :
                /\ objs[p][id].priority = orig[p][id].priority
                /\ objs[p][id].due_date = orig[p][id].due_date
                /\ objs[p][id].duration_minutes = orig[p][id].duration_minutes
                /\ objs[p][id].status = orig[p][id].status
                /\ objs[p][id].user_id = orig[p][id].user_id
                /\ (\/ id \notin Range(tasks[p])
                    \/ \E i \in DOMAIN sorted_tasks[p] :
                          i > idx[p] /\ sorted_tasks[p][i] = id)
                      => /\ objs[p][id].scheduled_start = orig[p][id].scheduled_start
                         /\ objs[p][id].scheduled_end = orig[p][id].scheduled_end

\* a call has returned after placing its batch next to an occupied task
\* outside the batch, one without scheduled_end among them, whose
\* status is not SCHEDULED
C21_Witness ==
    /\ pc[1] = "commit"
    /\ req[1].auto_slot
    /\ Len(sorted_tasks[1]) = 2
    /\ \A t \in Range(sorted_tasks[1]) :
          HasInterval(objs[1][t]) /\ ~HasInterval(orig[1][t])
    /\ \E x \in Range(existing_tasks[1]) \ Range(tasks[1]) :
          /\ IsSet(objs[1][x].scheduled_start)
          /\ ~IsSet(objs[1][x].scheduled_end)
          /\ objs[1][x].status = "inbox"

\* --------------------------------------------------------------- C22
\* everything the session of p holds belongs to the requesting user
ReadsOwnRowsOnly(p) ==
    \A id \in DOMAIN objs[p] :
        /\ db[id].user_id = req[p].user_id
        /\ objs[p][id].user_id = req[p].user_id

\* while the call of p runs, the committed rows of its user are the
\* rows the call has loaded: what the other user's request does in
\* between is not seen, as if the call ran alone
OwnRowsAsLoaded(p) ==
    pc[p] \in {"auto_schedule", "find", "commit"} =>
        /\ \A id \in DOMAIN orig[p] : db[id] = orig[p][id]
        /\ pc[p] # "auto_schedule" =>
              Calendar(db, req[p].user_id) \subseteq DOMAIN orig[p]

\* C22: a scheduling request for user U reads only rows whose user_id
\* is U and changes only committed rows whose user_id is U; with one
\* request per user running at a time, in any interleaving, the rows of
\* U are throughout a call what the call loaded, so each user gets the
\* placements of a run in which the requests follow one another.
C22_CrossUserIndependence ==
    /\ [](\A p \in Workers : ReadsOwnRowsOnly(p) /\ OwnRowsAsLoaded(p))
    /\ [][\A id \in TaskIds :
            db'[id] # db[id] =>
                \E p \in Workers : /\ pc[p] = "commit"
                                   /\ pc'[p] = "done"
                                   /\ db[id].user_id = req[p].user_id
                                   /\ id \in req[p].task_ids]_vars

\* user 2's request has committed a placement while user 1's request,
\* which has loaded its rows and placed a task in the same window, has
\* yet to commit
C22_Witness ==
    /\ pc[1] = "commit"
    /\ pc[2] = "done"
    /\ \E a \in Range(sorted_tasks[1]), b \in Range(sorted_tasks[2]) :
          /\ ~HasInterval(orig[1][a])
          /\ ~HasInterval(orig[2][b])
          /\ db[b].status = "scheduled"
          /\ db[a].status = "inbox"
          /\ TasksOverlap(objs[1][a], db[b])

\* --------------------------------------------------------------- C23
\* C23: after any sequence of create_task, update_task, schedule_tasks
\* and complete_task, every task has scheduled_start and scheduled_end
\* both unset, or both set with scheduled_end = scheduled_start +
\* duration_minutes.
C23_MatchedPair ==
    \A id \in TaskIds :
        \/ ~IsSet(db[id].scheduled_start) /\ ~IsSet(db[id].scheduled_end)
        \/ /\ IsSet(db[id].scheduled_start)
           /\ IsSet(db[id].scheduled_end)
           /\ IsSet(db[id].duration_minutes)
           /\ db[id].scheduled_end[1]
                 = db[id].scheduled_start[1] + db[id].duration_minutes[1] * Minute

\* --------------------------------------------------------------- C24
\* some instant of day d at or after the cursor of p starts a window
\* for the current task that fits
FitsOnDay(p, d) ==
    \E s \in Opening(d)..Closing(d) : s >= current_time[p] /\ SlotFits(p, s)

\* C24: every day is a working day.  A candidate whose hour is 18 or
\* later is followed by 09:00 of the next calendar day; a task that
\* fits in a working day is placed, the search not running for ever,
\* and on no later day than the first one, from the cursor's day on,
\* that has a free fitting slot at or after the cursor.
C24_EveryDayWorkingDay ==
    \A p \in Workers :
        (pc[p] = "find" /\ IsSet(CurrentDuration(p)))
            => /\ HourOf(candidate[p]) >= working_hours_end
                  => /\ ~NextPass(p).found
                     /\ NextPass(p).candidate = Opening(DayOf(candidate[p]) + 1)
               /\ (CurrentDuration(p)[1] > 0
                     /\ CurrentDuration(p)[1] <= WorkingDayMinutes)
                  => ~Spinning(p)
               /\ NextPass(p).found
                  => \A d \in DayOf(current_time[p])..(DayOf(candidate[p]) - 1) :
                        ~FitsOnDay(p, d)

\* --------------------------------------------------------------- C25
\* batch task t of the call of p was loaded with an interval, not
\* completed, and the call has placed it anew
Rescheduled(p, t) ==
    /\ t \in Placed(p)
    /\ HasInterval(orig[p][t])
    /\ orig[p][t].status # "completed"

\* the call of q is the call of p made again: p has committed, q serves
\* the same request at the same reading of the clock, and the rows q
\* loaded are the rows p left
SecondCall(p, q) ==
    /\ p # q
    /\ pc[p] = "done"
    /\ req[p].auto_slot
    /\ req[q] = req[p]
    /\ call[q] # NoCall
    /\ call[q].now = call[p].now
    /\ DOMAIN orig[q] = DOMAIN objs[p]
    /\ \A id \in DOMAIN orig[q] : orig[q][id] = objs[p][id]

\* C25: a batch task that carries an interval and is not completed is
\* in the occupied list the call loads, and the window the call gives
\* it does not overlap the interval it had; a second schedule_tasks
\* call on the same tasks at the same now, nothing else having changed,
\* does not put a task back where the first call put it but moves it to
\* a later start.
C25_ReschedulingBlocksOnOwnSlot ==
    /\ \A p \in Workers : \A t \in Range(sorted_tasks[p]) :
          /\ (/\ req[p].auto_slot
              /\ pc[p] \in {"find", "commit", "done"}
              /\ HasInterval(orig[p][t])
              /\ orig[p][t].status # "completed")
                => \E i \in DOMAIN call[p].existing_tasks :
                      call[p].existing_tasks[i] = t
          /\ Rescheduled(p, t) => ~TasksOverlap(objs[p][t], orig[p][t])
    /\ \A p, q \in Workers : \A t \in Placed(q) :
          (SecondCall(p, q) /\ t \in Range(sorted_tasks[p]))
              => objs[q][t].scheduled_start[1] > orig[q][t].scheduled_start[1]

\* --------------------------------------------------------------- C26
\* auto_schedule has loaded the occupied rows and nothing has been
\* committed since
OccupiedLoaded(p) == req[p].auto_slot /\ pc[p] \in {"find", "commit"}

\* C26: the occupied list auto_schedule loads holds exactly the user's
\* tasks with a scheduled_start whose status is not completed, so a
\* completed task with an interval is not among them, and no window the
\* call assigns overlaps the interval of a task outside the batch that
\* is inbox, scheduled or archived.
C26_CompletedFreeSlot ==
    \A p \in Workers :
        OccupiedLoaded(p) =>
            /\ \A id \in TaskIds :
                  (\E i \in DOMAIN call[p].existing_tasks :
                        call[p].existing_tasks[i] = id)
                    <=> /\ db[id].user_id = req[p].user_id
                        /\ db[id].scheduled_start # None
                        /\ db[id].status \in {"inbox", "scheduled", "archived"}
            /\ \A t \in Placed(p) : \A x \in TaskIds \ Range(tasks[p]) :
                  (/\ db[x].user_id = req[p].user_id
                   /\ db[x].status \in {"inbox", "scheduled", "archived"})
                      => ~TasksOverlap(objs[p][t], db[x])

\* after complete_task on a task with an interval, a scheduling call has
\* placed a task of the same user in a window that overlaps it
C26_Witness ==
    /\ pc[1] = "commit"
    /\ req[1].auto_slot
    /\ \E t \in Placed(1) : \E x \in TaskIds \ Range(tasks[1]) :
          /\ db[x].user_id = req[1].user_id
          /\ db[x].status = "completed"
          /\ TasksOverlap(objs[1][t], db[x])

\* --------------------------------------------------------------- C27
\* the ids of the request under which the requesting user has a task
OwnNamed(p) ==
    {id \in TaskIds : id \in req[p].task_ids /\ db[id].user_id = req[p].user_id}

\* C27: the list schedule_tasks returns holds exactly the tasks named in
\* task_ids that belong to the requesting user, the ids of another
\* user's task or of no task being left out without a failure; the
\* call changes no task in its session but those, and its commit leaves
\* every other row, those of other users among them, as it was.
C27_OwnershipFilter ==
    /\ [](\A p \in Workers :
            /\ pc[p] = "commit" => Range(ScheduledTasks(p)) = OwnNamed(p)
            /\ pc[p] \in {"find", "commit", "done"} =>
                  \A id \in DOMAIN objs[p] :
                      objs[p][id] # orig[p][id] =>
                          /\ id \in req[p].task_ids
                          /\ orig[p][id].user_id = req[p].user_id)
    /\ [][\A p \in Workers :
            (pc[p] = "commit" /\ pc'[p] = "done") =>
                \A id \in TaskIds \ OwnNamed(p) : db'[id] = db[id]]_vars

\* a request naming a task of its user, a task of another user and an
\* id under which there is no task has committed: the first is
\* scheduled, the second is as it was
C27_Witness ==
    /\ pc[1] = "done"
    /\ req[1].auto_slot
    /\ \E a, b, c \in req[1].task_ids :
          /\ db[a].user_id = req[1].user_id
          /\ a \in Placed(1)
          /\ db[a].status = "scheduled"
          /\ HasInterval(db[a])
          /\ db[b].user_id \in Users \ {req[1].user_id}
          /\ db[b].status = "inbox"
          /\ ~IsSet(db[b].scheduled_start)
          /\ db[c] = NoRow

\* --------------------------------------------------------------- C28
\* C28: every scheduled_start auto_schedule assigns is at or after the
\* cursor the call started from, hence at or after now and at or after
\* 09:00 of now's day: no task is placed before the time of the call,
\* whatever is occupied.
C28_NeverInThePast ==
    \A p \in Workers : \A t \in Placed(p) :
        (req[p].auto_slot /\ call[p] # NoCall) =>
            /\ objs[p][t].scheduled_start[1] >= NextWorkingHour(call[p].now)
            /\ objs[p][t].scheduled_start[1] >= call[p].now
            /\ objs[p][t].scheduled_start[1] >= Opening(DayOf(call[p].now))

\* --------------------------------------------------------------- C29
\* the search for the current task of p is at its first candidate, the
\* cursor, which has passed the working-hours check for the task, and
\* the window from the cursor overlaps no task of the occupied list
FreeAtCursor(p) ==
    /\ AtConflictCheck(p)
    /\ candidate[p] = current_time[p]
    /\ \A x \in Range(existing_tasks[p]) : ~HitBy(p, x)

\* C29: when the cursor passes the working-hours check for the task and
\* the window [cursor, cursor + duration) overlaps no occupied interval,
\* the task is placed exactly at the cursor, also when an occupied
\* interval ends at the cursor or starts at cursor + duration: no
\* buffer is kept against an interval the window does not overlap.  The
\* 15 minutes are added to the cursor after the placement.
C29_NoBufferAgainstUntouched ==
    [][\A p \in Workers :
          FreeAtCursor(p) =>
              LET t == CurrentTask(p)
                  slot_end == current_time[p] + CurrentDuration(p)[1] * Minute
              IN  /\ objs'[p][t].scheduled_start = Some(current_time[p])
                  /\ objs'[p][t].scheduled_end = Some(slot_end)
                  /\ idx'[p] = idx[p] + 1
                  /\ current_time'[p] = slot_end + buffer_minutes * Minute]_vars

\* a task has been placed at the cursor the call started from, in a
\* window that ends where the interval of an occupied task outside the
\* batch starts
C29_Witness ==
    /\ pc[1] \in {"find", "commit"}
    /\ idx[1] > 1
    /\ LET t == sorted_tasks[1][1]
       IN  /\ objs[1][t].duration_minutes[1] > 0
           /\ objs[1][t].scheduled_start = Some(NextWorkingHour(call[1].now))
           /\ \E x \in Range(call[1].existing_tasks) \ Range(tasks[1]) :
                 /\ HasInterval(objs[1][x])
                 /\ objs[1][t].scheduled_end = objs[1][x].scheduled_start

====
